---- MODULE Spec2Model ----
(***************************************************************************)
(* Model of SGFParser (src/SGF.py): a recursive-descent parser for SGF.    *)
(*                                                                         *)
(* The recursion parseCollection -> parseGameTree -> parseSequence ->      *)
(* parseNode -> parseProperty is unfolded into a state machine: `pc' is    *)
(* the place in the code the parser is at and `stack' holds one frame per  *)
(* active parseGameTree call (its root argument, the nodes and subtrees    *)
(* built so far, the node under construction).                             *)
(*                                                                         *)
(* Reading of the source.  The statements at lines 224 and 236 are read    *)
(* with the ':' they lack.  The bare names `properties' (lines 210, 224)   *)
(* and `valuetypes' (lines 258-276) are read as the class attributes of    *)
(* that name, the only bindings the file has for them; `valuetypes' is the *)
(* tuple of line 290, which rebinds the string of line 34.  The value      *)
(* branch of parsePropValue ends at line 281 without a return statement,   *)
(* so a text that no earlier branch returned yields None.  Comparisons     *)
(* between an int and None or a string (line 195) follow Python 2, the     *)
(* dialect of the file (`unicode', line 277).                              *)
(***************************************************************************)
EXTENDS Integers, Sequences, FiniteSets, TLC

VARIABLES
    data,        \* self.data: the text being parsed, a sequence of characters
    pos,         \* self.pos: 0-based cursor into data
    gm,          \* self.gm
    ff,          \* self.ff
    charset,     \* self.charset
    propid_re,   \* self.propid_re: "old_propid_re" or "ff4_propid_re"
    pc,          \* place in the code
    rootArg,     \* the `root' argument of the call about to run
    stack,       \* frames of the active parseGameTree calls, innermost last
    collection,  \* parseCollection's local list
    outcome,     \* "running", "ok", or the class of the exception parse ended with
    raised,      \* the `values' of the exception raised
    result,      \* what parse returned
    sgf,         \* history: the argument of parse
    openTrees    \* history: number of parseGameTree calls active when the exception was raised

vars == <<data, pos, gm, ff, charset, propid_re, pc, rootArg, stack,
          collection, outcome, raised, result, sgf, openTrees>>

-----------------------------------------------------------------------------
(* Bounds of the model *)

\* an input is a concatenation of at most MaxChunks pieces of Vocabulary
MaxChunks == 4

Vocabulary ==
    { <<"(", ";">>,
      <<";">>,
      <<")">>,
      <<" ">>,
      <<"F", "F", "[", "4", "]">>,
      <<"F", "a", "F", "[", "3", "]">>,
      <<"G", "M", "[", "x", "]">>,
      <<"a", "b", "[", "x", "]">>,
      <<"C", "[", "a">>,
      <<"C", "[", "a", "\\", "]">>,
      <<"(", ";", "F", "F", "[", "4", "]", ")">> }

\* the concatenation of the pieces f[1], ..., f[n]
RECURSIVE Concat(_, _)
Concat(f, n) == IF n = 0 THEN <<>> ELSE Concat(f, n - 1) \o f[n]

-----------------------------------------------------------------------------
(* Characters and the regular expressions of lines 28-31 *)

None == "None"          \* Python's None, as the token at end of input

Upper == { "A","B","C","D","E","F","G","H","I","J","K","L","M",
           "N","O","P","Q","R","S","T","U","V","W","X","Y","Z" }
Lower == { "a","b","c","d","e","f","g","h","i","j","k","l","m",
           "n","o","p","q","r","s","t","u","v","w","x","y","z" }
Space == { " ", "\t", "\n", "\r", "\f" }
Digit == { "0","1","2","3","4","5","6","7","8","9" }

DigitVal(c) ==
    CASE c = "0" -> 0 [] c = "1" -> 1 [] c = "2" -> 2 [] c = "3" -> 3
      [] c = "4" -> 4 [] c = "5" -> 5 [] c = "6" -> 6 [] c = "7" -> 7
      [] c = "8" -> 8 [] c = "9" -> 9

\* the character class a propid_re matches
ff4_propid_re == Upper
old_propid_re == Upper \cup Lower
PropidClass(re) == IF re = "ff4_propid_re" THEN ff4_propid_re ELSE old_propid_re

\* end of the longest run of characters of class cls that starts at offset p
RECURSIVE RunEnd(_, _, _)
RunEnd(d, p, cls) ==
    IF p < Len(d) /\ d[p + 1] \in cls THEN RunEnd(d, p + 1, cls) ELSE p

\* nextToken: the cursor after the whitespace run, and the character there
SkipSpace(d, p) == RunEnd(d, p, Space)
TokenAt(d, p) == IF p < Len(d) THEN d[p + 1] ELSE None

\* value_re, scanning from offset i (just after the '['): the offset after
\* the first unescaped ']', or -1 when the text ends first
RECURSIVE ValueScan(_, _)
ValueScan(d, i) ==
    IF i >= Len(d) THEN -1
    ELSE IF d[i + 1] = "\\" THEN (IF i + 1 < Len(d) THEN ValueScan(d, i + 2) ELSE -1)
    ELSE IF d[i + 1] = "]" THEN i + 1
    ELSE ValueScan(d, i + 1)

value_re(d, p) == IF p < Len(d) /\ d[p + 1] = "[" THEN ValueScan(d, p + 1) ELSE -1

\* the characters of d at offsets a .. b-1
Slice(d, a, b) == [i \in 1..(b - a) |-> d[a + i]]

RECURSIVE FilterUpper(_)
FilterUpper(s) ==
    IF s = <<>> THEN <<>>
    ELSE (IF Head(s) \in Upper THEN <<Head(s)>> ELSE <<>>) \o FilterUpper(Tail(s))

-----------------------------------------------------------------------------
(* The schema (lines 36-43) and the value kinds (line 290) *)

\* identifiers are sequences of characters, as every other text
properties ==
    (<<"A", "P">> :> [type |-> "root", valuetype |-> {"compose simpletext:simpletext"}]) @@
    (<<"C", "A">> :> [type |-> "root", valuetype |-> {"simpletext"}]) @@
    (<<"F", "F">> :> [type |-> "root", valuetype |-> {"number"}]) @@
    (<<"G", "M">> :> [type |-> "root", valuetype |-> {"number"}]) @@
    (<<"S", "T">> :> [type |-> "root", valuetype |-> {"number"}]) @@
    (<<"S", "Z">> :> [type |-> "root", valuetype |-> {"number", "compose number:number"}])

valuetypes == { "none", "number", "real", "double", "color", "simpleText",
                "text", "point", "move", "stone" }

-----------------------------------------------------------------------------
(* Python values: t is the type, n the number of an int, s the text of a   *)
(* str or of the literal a float was read from                             *)

PyInt(n)   == [t |-> "int",   n |-> n, s |-> <<>>]
PyFloat(s) == [t |-> "float", n |-> 0, s |-> s]
PyStr(s)   == [t |-> "str",   n |-> 0, s |-> s]
PyNone     == [t |-> "None",  n |-> 0, s |-> <<>>]

\* str.strip() as int() and float() apply it
RECURSIVE LStrip(_)
LStrip(s) == IF s # <<>> /\ Head(s) \in Space THEN LStrip(Tail(s)) ELSE s
RECURSIVE RStrip(_)
RStrip(s) ==
    IF s # <<>> /\ s[Len(s)] \in Space THEN RStrip(SubSeq(s, 1, Len(s) - 1)) ELSE s
Strip(s) == RStrip(LStrip(s))

Signed(s) == s # <<>> /\ Head(s) \in {"+", "-"}
Unsigned(s) == IF Signed(s) THEN Tail(s) ELSE s
AllDigits(s) == \A i \in 1..Len(s) : s[i] \in Digit

RECURSIVE DigitsVal(_)
DigitsVal(s) ==
    IF s = <<>> THEN 0 ELSE 10 * DigitsVal(SubSeq(s, 1, Len(s) - 1)) + DigitVal(s[Len(s)])

\* int(value) succeeds (line 264)
IsInt(s) == LET b == Unsigned(Strip(s)) IN b # <<>> /\ AllDigits(b)
IntOf(s) ==
    LET t == Strip(s)
    IN  IF t # <<>> /\ Head(t) = "-" THEN 0 - DigitsVal(Unsigned(t)) ELSE DigitsVal(Unsigned(t))

\* float(value) succeeds (line 269), for literals written with a sign, digits
\* and a decimal point
DotAt(b) == IF \E i \in 1..Len(b) : b[i] = "." THEN CHOOSE i \in 1..Len(b) : b[i] = "." /\ \A j \in 1..(i - 1) : b[j] # "." ELSE Len(b) + 1
IntPart(b) == SubSeq(b, 1, DotAt(b) - 1)
FracPart(b) == SubSeq(b, DotAt(b) + 1, Len(b))
IsFloat(s) ==
    LET b == Unsigned(Strip(s))
    IN  /\ AllDigits(IntPart(b))
        /\ AllDigits(FracPart(b))
        /\ IntPart(b) \o FracPart(b) # <<>>

\* 1 <= self.ff <= 4 (line 195); Python 2 orders None below and str above every number
FFInRange(v) ==
    CASE v.t = "int" -> 1 <= v.n /\ v.n <= 4
      [] v.t = "float" ->
            LET t == Strip(v.s)
                b == Unsigned(t)
                i == DigitsVal(IntPart(b))
                zero == \A k \in 1..Len(FracPart(b)) : FracPart(b)[k] = "0"
            IN  ~(t # <<>> /\ Head(t) = "-") /\ i >= 1 /\ (i < 4 \/ (i = 4 /\ zero))
      [] OTHER -> FALSE

\* self.ff == 4 (line 197)
FFIsFour(v) ==
    CASE v.t = "int" -> v.n = 4
      [] v.t = "float" ->
            LET t == Strip(v.s)
                b == Unsigned(t)
            IN  /\ ~(t # <<>> /\ Head(t) = "-")
                /\ DigitsVal(IntPart(b)) = 4
                /\ \A k \in 1..Len(FracPart(b)) : FracPart(b)[k] = "0"
      [] OTHER -> FALSE

\* the value branch of parsePropValue, lines 253-281, for the inner text
Interpret(value) ==
    IF "none" \in valuetypes /\ Len(value) = 0 THEN PyStr(value)
    ELSE IF "number" \in valuetypes /\ IsInt(value) THEN PyInt(IntOf(value))
    ELSE IF "real" \in valuetypes /\ IsFloat(value) THEN PyFloat(value)
    ELSE IF "double" \in valuetypes /\ value \in {<<"1">>, <<"2">>} THEN PyInt(IntOf(value))
    ELSE IF "color" \in valuetypes /\ value \in {<<"B">>, <<"W">>} THEN PyStr(value)
    ELSE IF "simpletext" \in valuetypes THEN PyStr(value)
    ELSE PyNone

-----------------------------------------------------------------------------
(* Results of the property-level functions: exc is "" for a return and the *)
(* exception class for a raise; pos is self.pos afterwards                 *)

Return(p, id, val) ==
    [exc |-> "", pos |-> p, id |-> id, val |-> val,
     expected |-> "", found |-> "", reason |-> ""]
ParseError(p, expected, found) ==
    [exc |-> "SGFParseError", pos |-> p, id |-> <<>>, val |-> PyNone,
     expected |-> expected, found |-> found, reason |-> ""]
ValidationError(p, reason) ==
    [exc |-> "SGFValidationError", pos |-> p, id |-> <<>>, val |-> PyNone,
     expected |-> "", found |-> "", reason |-> reason]

\* parsePropValue, lines 246-287, called with the cursor at p0
parsePropValue(d, p0) ==
    LET p == SkipSpace(d, p0)
        e == value_re(d, p)
    IN  IF TokenAt(d, p) # "[" THEN ParseError(p, "[", TokenAt(d, p))
        ELSE IF e # -1 THEN Return(e, <<>>, Interpret(Slice(d, p + 1, e - 1)))
        ELSE ParseError(Len(d) - 1, "]", TokenAt(d, SkipSpace(d, Len(d) - 1)))

\* variant: the loop appends each value and ends at the first token that is not '['
RECURSIVE parsePropValueList_Returns(_, _)
parsePropValueList_Returns(d, p0) ==
    LET r == parsePropValue(d, p0)
    IN  IF r.exc # "" THEN r
        ELSE IF TokenAt(d, SkipSpace(d, r.pos)) = "["
             THEN parsePropValueList_Returns(d, r.pos)
        ELSE Return(SkipSpace(d, r.pos), <<>>, PyNone)

\* parsePropValueList, lines 236-244: propvalues is never appended to, so the
\* loop runs until parsePropValue raises
RECURSIVE parsePropValueList(_, _)
parsePropValueList(d, p0) ==
    LET r == parsePropValue(d, p0)
    IN  IF r.exc # "" THEN r ELSE parsePropValueList(d, r.pos)

\* parsePropIdent, lines 228-234
parsePropIdent(d, p, re) ==
    LET e == RunEnd(d, p, PropidClass(re))
    IN  IF e = p THEN ParseError(p, "[A-Z]", TokenAt(d, SkipSpace(d, p)))
        ELSE Return(e, FilterUpper(Slice(d, p, e)), PyNone)

\* parseProperty, lines 203-226
parseProperty(d, p, re, root) ==
    LET i == parsePropIdent(d, p, re)
        v == IF i.id \notin DOMAIN properties \/ "list" \in properties[i.id].valuetype
             THEN parsePropValueList(d, i.pos)
             ELSE parsePropValue(d, i.pos)
    IN  IF i.exc # "" THEN i
        ELSE IF v.exc # "" THEN v
        ELSE IF i.id \in DOMAIN properties /\ properties[i.id].type = "root" /\ ~root
             THEN ValidationError(v.pos, "Illegal root-property in non-root node")
        ELSE Return(v.pos, i.id, v.val)

-----------------------------------------------------------------------------
(* Nodes are dictionaries: sets of (key, value) entries with distinct keys *)

\* variant: the membership test of line 187 never succeeds
HasKey_Never(node, id) == FALSE

HasKey(node, id) == \E q \in node : q.id = id
SetItem(node, id, val) == {q \in node : q.id # id} \cup {[id |-> id, val |-> val]}

Unset == [t |-> "unset", n |-> 0, s |-> <<>>]

\* variant: the defaults are set once, before the loop
EntryState_Once(cur) ==
    IF cur.propid_re = "unset"
    THEN [gm |-> PyInt(1), ff |-> PyInt(1), charset |-> "ISO-8859-1",
          propid_re |-> "old_propid_re"]
    ELSE cur

\* lines 120-123: the session state a Collection entry starts with
EntryState(cur) ==
    [gm |-> PyInt(1), ff |-> PyInt(1), charset |-> "ISO-8859-1",
     propid_re |-> "old_propid_re"]

\* variant: the loop test without `or not collection'
CollectionContinues_Token(tok, coll) == tok # None

\* line 119: the loop test of parseCollection
CollectionContinues(tok, coll) == tok # None \/ coll = <<>>

\* variant: root is passed on to every node of the sequence
NodeIsRoot_Whole(root, nodes) == root

\* line 167: the root argument parseSequence gives parseNode
NodeIsRoot(root, nodes) == root /\ nodes = <<>>

\* variant: FF never changes the identifier class
FFSwitch_Never(re, val) == re

\* lines 197-198: the identifier class after FF was set to val
FFSwitch(re, val) == IF FFIsFour(val) THEN "ff4_propid_re" ELSE re

\* lines 157-160: the tuple parseGameTree returns
GameTree(seq, subtrees) == IF subtrees # <<>> THEN <<seq, subtrees>> ELSE <<seq>>

\* variant: the trees parsed before the exception are returned
ResultOnRaise_Partial(coll) == coll

\* lines 91-97 and 128-131: an exception leaves parse, which returns nothing
ResultOnRaise(coll) == <<>>

Top == stack[Len(stack)]
SetTop(f) == [stack EXCEPT ![Len(stack)] = f]

\* an exception propagates out of every active call and out of parse, whose
\* finally clause (lines 95-97) clears data and pos
Raise(type, p, expected, found, reason) ==
    /\ outcome' = type
    /\ raised' = [pos |-> p, expected |-> expected, found |-> found, reason |-> reason]
    /\ openTrees' = Len(stack)
    /\ result' = ResultOnRaise(collection)
    /\ data' = <<>>
    /\ pos' = 0
    /\ pc' = "done"
    /\ stack' = <<>>
    /\ collection' = <<>>
    /\ UNCHANGED <<charset, rootArg, sgf>>

-----------------------------------------------------------------------------
(* The parser *)

Init ==
    /\ data = <<>>
    /\ pos = 0
    /\ gm = Unset
    /\ ff = Unset
    /\ charset = "unset"
    /\ propid_re = "unset"
    /\ pc = "idle"
    /\ rootArg = FALSE
    /\ stack = <<>>
    /\ collection = <<>>
    /\ outcome = "running"
    /\ raised = [pos |-> 0, expected |-> "", found |-> "", reason |-> ""]
    /\ result = <<>>
    /\ sgf = <<>>
    /\ openTrees = 0

\* parse, lines 83-90: the call, up to the call of parseCollection
parse ==
    /\ pc = "idle"
    /\ \E n \in 0..MaxChunks :
         \E f \in [1..n -> Vocabulary] :
            /\ data' = Concat(f, n)
            /\ sgf' = Concat(f, n)
    /\ pos' = 0
    /\ collection' = <<>>
    /\ pc' = "parseCollection"
    /\ UNCHANGED <<gm, ff, charset, propid_re, rootArg, stack, outcome, raised,
                   result, openTrees>>

\* parseCollection, lines 119-134: one test of the loop; either the state is
\* reset and parseGameTree(root=True) is called, or the collection is returned
\* and parse returns it (lines 95-102)
parseCollection ==
    /\ pc = "parseCollection"
    /\ LET p == SkipSpace(data, pos)
           st == EntryState([gm |-> gm, ff |-> ff, charset |-> charset,
                             propid_re |-> propid_re])
       IN  IF CollectionContinues(TokenAt(data, p), collection)
           THEN /\ pos' = p
                /\ gm' = st.gm
                /\ ff' = st.ff
                /\ charset' = st.charset
                /\ propid_re' = st.propid_re
                /\ rootArg' = TRUE
                /\ pc' = "parseGameTree"
                /\ UNCHANGED <<data, stack, collection, outcome, raised, result,
                               sgf, openTrees>>
           ELSE /\ outcome' = "ok"
                /\ result' = collection
                /\ data' = <<>>
                /\ pos' = 0
                /\ pc' = "done"
                /\ UNCHANGED <<gm, ff, charset, propid_re, rootArg, stack,
                               collection, raised, sgf, openTrees>>

\* parseGameTree, lines 138-143: the opening parenthesis, then parseSequence
parseGameTree ==
    /\ pc = "parseGameTree"
    /\ LET p == SkipSpace(data, pos)
       IN  IF TokenAt(data, p) # "("
           THEN /\ Raise("SGFParseError", p, "(", TokenAt(data, p), "")
                /\ UNCHANGED <<gm, ff, propid_re>>
           ELSE /\ pos' = p + 1
                /\ stack' = Append(stack, [root |-> rootArg, nodes |-> <<>>,
                                           subtrees |-> <<>>, properties |-> {}])
                /\ pc' = "parseSequence"
                /\ UNCHANGED <<data, gm, ff, charset, propid_re, rootArg,
                               collection, outcome, raised, result, sgf, openTrees>>

\* parseSequence, lines 165-172: one test of the loop
parseSequence ==
    /\ pc = "parseSequence"
    /\ LET p == SkipSpace(data, pos)
       IN  /\ pos' = p
           /\ IF TokenAt(data, p) = ";" \/ Top.nodes = <<>>
              THEN /\ rootArg' = NodeIsRoot(Top.root, Top.nodes)
                   /\ pc' = "parseNode"
              ELSE /\ pc' = "parseGameTreeLoop"
                   /\ UNCHANGED rootArg
    /\ UNCHANGED <<data, gm, ff, charset, propid_re, stack, collection, outcome,
                   raised, result, sgf, openTrees>>

\* parseNode, lines 176-179: the semicolon and the empty dictionary
parseNode ==
    /\ pc = "parseNode"
    /\ LET p == SkipSpace(data, pos)
       IN  IF TokenAt(data, p) # ";"
           THEN /\ Raise("SGFParseError", p, ";", TokenAt(data, p), "")
                /\ UNCHANGED <<gm, ff, propid_re>>
           ELSE /\ pos' = p + 1
                /\ stack' = SetTop([Top EXCEPT !.properties = {}])
                /\ pc' = "parseNodeLoop"
                /\ UNCHANGED <<data, gm, ff, charset, propid_re, rootArg,
                               collection, outcome, raised, result, sgf, openTrees>>

\* parseNode, lines 180 and 201: one test of the property loop; re.match
\* raises TypeError when nextToken is None
parseNodeLoop ==
    /\ pc = "parseNodeLoop"
    /\ LET p == SkipSpace(data, pos)
           tok == TokenAt(data, p)
       IN  IF tok = None
           THEN /\ Raise("TypeError", p, "", None, "expected string or buffer")
                /\ UNCHANGED <<gm, ff, propid_re>>
           ELSE /\ pos' = p
                /\ IF tok \in PropidClass(propid_re)
                   THEN /\ pc' = "parseNodeProperty"
                        /\ UNCHANGED stack
                   ELSE /\ stack' = SetTop([Top EXCEPT !.nodes = Append(@, Top.properties),
                                                       !.properties = {}])
                        /\ pc' = "parseSequence"
                /\ UNCHANGED <<data, gm, ff, charset, propid_re, rootArg,
                               collection, outcome, raised, result, sgf, openTrees>>

\* parseNode, lines 181-200: one pass of the property loop
parseNodeProperty ==
    /\ pc = "parseNodeProperty"
    /\ LET r == parseProperty(data, pos, propid_re, rootArg)
       IN  IF r.exc # ""
           THEN /\ Raise(r.exc, r.pos, r.expected, r.found, r.reason)
                /\ UNCHANGED <<gm, ff, propid_re>>
           ELSE IF HasKey(Top.properties, r.id)
           THEN /\ Raise("SGFValidationError", r.pos, "", "",
                         "Duplicate property in the same node")
                /\ UNCHANGED <<gm, ff, propid_re>>
           ELSE IF r.id = <<"F", "F">> /\ ~FFInRange(r.val)
           THEN /\ Raise("SGFValidationError", r.pos, "", "",
                         "Illegal value for FF property. Should be number in range 1-4")
                /\ ff' = r.val
                /\ UNCHANGED <<gm, propid_re>>
           ELSE /\ pos' = r.pos
                /\ stack' = SetTop([Top EXCEPT !.properties = SetItem(@, r.id, r.val)])
                /\ ff' = IF r.id = <<"F", "F">> THEN r.val ELSE ff
                /\ propid_re' = IF r.id = <<"F", "F">> THEN FFSwitch(propid_re, r.val) ELSE propid_re
                /\ gm' = IF r.id = <<"G", "M">> THEN r.val ELSE gm
                /\ pc' = "parseNodeLoop"
                /\ UNCHANGED <<data, charset, rootArg, collection, outcome, raised,
                               result, sgf, openTrees>>

\* parseGameTree, lines 149-160: one test of the variation loop; either
\* parseGameTree() is called for a variation, or the closing parenthesis is
\* skipped and the tree is returned to the caller (line 125 or line 151)
parseGameTreeLoop ==
    /\ pc = "parseGameTreeLoop"
    /\ LET p == SkipSpace(data, pos)
           tree == GameTree(Top.nodes, Top.subtrees)
           rest == SubSeq(stack, 1, Len(stack) - 1)
       IN  IF TokenAt(data, p) # ")"
           THEN /\ pos' = p
                /\ rootArg' = FALSE
                /\ pc' = "parseGameTree"
                /\ UNCHANGED <<stack, collection>>
           ELSE /\ pos' = p + 1
                /\ UNCHANGED rootArg
                /\ IF rest = <<>>
                   THEN /\ collection' = Append(collection, tree)
                        /\ stack' = rest
                        /\ pc' = "parseCollection"
                   ELSE /\ stack' = [rest EXCEPT ![Len(rest)].subtrees = Append(@, tree)]
                        /\ pc' = "parseGameTreeLoop"
                        /\ UNCHANGED collection
    /\ UNCHANGED <<data, gm, ff, charset, propid_re, outcome, raised, result,
                   sgf, openTrees>>

Next ==
    \/ parse
    \/ parseCollection
    \/ parseGameTree
    \/ parseSequence
    \/ parseNode
    \/ parseNodeLoop
    \/ parseNodeProperty
    \/ parseGameTreeLoop

Spec == Init /\ [][Next]_vars

-----------------------------------------------------------------------------
(* Vocabulary of the properties *)

RootOnly == { <<"A", "P">>, <<"C", "A">>, <<"F", "F">>, <<"G", "M">>,
              <<"S", "T">>, <<"S", "Z">> }
NumberOnly == { <<"F", "F">>, <<"G", "M">>, <<"S", "T">> }

Failed == outcome \notin {"running", "ok"}

KeysOf(node) == { q.id : q \in node }
SeqOf(tree) == tree[1]
SubtreesOf(tree) == IF Len(tree) = 2 THEN tree[2] ELSE <<>>

\* the nodes of the tree, its variations included
RECURSIVE NodesOf(_)
NodesOf(tree) ==
    { SeqOf(tree)[i] : i \in 1..Len(SeqOf(tree)) }
        \cup UNION { NodesOf(SubtreesOf(tree)[j]) : j \in 1..Len(SubtreesOf(tree)) }

RECURSIVE CountTrees(_)
CountTrees(tree) ==
    LET subs == SubtreesOf(tree)
        F[j \in 0..Len(subs)] == IF j = 0 THEN 0 ELSE F[j - 1] + CountTrees(subs[j])
    IN  1 + F[Len(subs)]

RECURSIVE CountNodes(_)
CountNodes(tree) ==
    LET subs == SubtreesOf(tree)
        F[j \in 0..Len(subs)] == IF j = 0 THEN 0 ELSE F[j - 1] + CountNodes(subs[j])
    IN  Len(SeqOf(tree)) + F[Len(subs)]

SumOver(coll, Count(_)) ==
    LET F[j \in 0..Len(coll)] == IF j = 0 THEN 0 ELSE F[j - 1] + Count(coll[j])
    IN  F[Len(coll)]

\* occurrences of character c in d from offset p on, outside bracketed values
RECURSIVE Structural(_, _, _)
Structural(d, p, c) ==
    IF p >= Len(d) THEN 0
    ELSE IF d[p + 1] = "[" /\ value_re(d, p) # -1 THEN Structural(d, value_re(d, p), c)
    ELSE (IF d[p + 1] = c THEN 1 ELSE 0) + Structural(d, p + 1, c)

NoRootKey(node) == KeysOf(node) \cap RootOnly = {}

\* the property at the cursor, as the identifier and one bracketed value
IdentAtCursor == parsePropIdent(data, pos, propid_re)
ValueAtCursor == parsePropValue(data, IdentAtCursor.pos)
WellFormedAtCursor == IdentAtCursor.exc = "" /\ ValueAtCursor.exc = ""
FirstNodeOfEntry == Len(stack) = 1 /\ Top.nodes = <<>>

IllegalRoot == "Illegal root-property in non-root node"
Duplicate == "Duplicate property in the same node"

-----------------------------------------------------------------------------
(* C1: a root-only property (AP, CA, FF, GM, ST, SZ) with a well-formed    *)
(* value is rejected with a ValidationError on every node but the first    *)
(* node of an outermost GameTree - later nodes of that sequence and every  *)
(* node of a variation, the variation's first node included; on the first  *)
(* node of the outermost GameTree it is not rejected for its placement;    *)
(* and in a returned Collection root-only keys occur only on first nodes   *)
(* of the entries.                                                         *)
C1_Step ==
    (pc = "parseNodeProperty" /\ WellFormedAtCursor /\ IdentAtCursor.id \in RootOnly)
        => IF FirstNodeOfEntry
           THEN ~(outcome' = "SGFValidationError" /\ raised'.reason = IllegalRoot)
           ELSE outcome' = "SGFValidationError"

C1_Returned ==
    outcome = "ok" =>
        \A k \in 1..Len(result) :
            /\ \A i \in 2..Len(SeqOf(result[k])) : NoRootKey(SeqOf(result[k])[i])
            /\ \A j \in 1..Len(SubtreesOf(result[k])) :
                    \A n \in NodesOf(SubtreesOf(result[k])[j]) : NoRootKey(n)

C2_EntryStartsWithDefaults ==
    (pc = "parseGameTree" /\ stack = <<>>) =>
        /\ gm = [t |-> "int", n |-> 1, s |-> <<>>]
        /\ ff = [t |-> "int", n |-> 1, s |-> <<>>]
        /\ charset = "ISO-8859-1"
        /\ propid_re = "old_propid_re"

\* the entry after one that declared FF[4] has lexed a mixed-case identifier
C2_Witness ==
    /\ Len(collection) = 1
    /\ \E q \in SeqOf(collection[1])[1] : q.id = <<"F", "F">> /\ q.val.n = 4
    /\ Len(stack) = 1
    /\ \E q \in Top.properties : q.id = <<"F", "F">> /\ q.val.n = 3

(* C3: the identifier class is legacy when an entry starts; it changes     *)
(* only from legacy to strict, in the step that stores an FF property of   *)
(* value 4, and that step always makes it strict; it goes back to legacy   *)
(* only when parseCollection starts the next entry.                        *)
StoresFF4 ==
    /\ pc = "parseNodeProperty"
    /\ WellFormedAtCursor
    /\ IdentAtCursor.id = <<"F", "F">>
    /\ ValueAtCursor.val = [t |-> "int", n |-> 4, s |-> <<>>]
    /\ outcome' = "running"

C3_Step ==
    /\ (propid_re' # propid_re) =>
            \/ pc = "parseCollection" /\ propid_re' = "old_propid_re"
            \/ StoresFF4 /\ propid_re = "old_propid_re" /\ propid_re' = "ff4_propid_re"
    /\ StoresFF4 => propid_re' = "ff4_propid_re"

C3_LexingModeTransition == [][C3_Step]_vars

\* strict lexing is in force inside a variation
C3_Witness ==
    /\ propid_re = "ff4_propid_re"
    /\ Len(stack) = 2
    /\ pc = "parseNodeLoop"

(* C4: when a well-formed property is parsed in a node whose dictionary    *)
(* already holds its canonical identifier, parse fails with a              *)
(* ValidationError, also when the two values are equal.                    *)
C4_Step ==
    LET r == parseProperty(data, pos, propid_re, rootArg)
    IN  (pc = "parseNodeProperty" /\ r.exc = "" /\ r.id \in KeysOf(Top.properties))
            => outcome' = "SGFValidationError"

C4_DuplicateRejected == [][C4_Step]_vars

\* "(;FF[4]FF[4])" ended with the duplicate-property error
C4_Witness ==
    /\ outcome = "SGFValidationError"
    /\ raised.reason = Duplicate
    /\ sgf = <<"(", ";", "F", "F", "[", "4", "]", "F", "F", "[", "4", "]", ")">>

C6_EofInOpenTreeIsSyntaxError ==
    (Failed /\ openTrees >= 1 /\ raised.found = None) => outcome = "SGFParseError"

(* C7: a value opened with '[' and not closed before the end of the input  *)
(* fails with a SyntaxError expecting ']' whose position is the length of  *)
(* the input and whose found token is end-of-input.                        *)
C7_UnterminatedValueAtEndOfInput ==
    (outcome = "SGFParseError" /\ raised.expected = "]") =>
        /\ raised.pos = Len(sgf)
        /\ raised.found = None

(* C8: a well-formed value of a number-only identifier (FF, GM, ST) whose  *)
(* inner text is not an optionally signed digit string makes parse fail    *)
(* with a ValidationError.                                                 *)
SignedDigits(s) ==
    LET b == IF s # <<>> /\ Head(s) \in {"+", "-"} THEN Tail(s) ELSE s
    IN  b # <<>> /\ \A i \in 1..Len(b) : b[i] \in Digit

InnerTextAtCursor ==
    LET p == SkipSpace(data, IdentAtCursor.pos)
    IN  Slice(data, p + 1, ValueAtCursor.pos - 1)

C8_Step ==
    (/\ pc = "parseNodeProperty"
     /\ WellFormedAtCursor
     /\ IdentAtCursor.id \in NumberOnly
     /\ ~SignedDigits(InnerTextAtCursor))
        => outcome' = "SGFValidationError"

C8_NonNumericRejected == [][C8_Step]_vars

(* C9: parse returns nothing when an exception ends it, and a Collection   *)
(* it returns holds only completely parsed trees: as many GameTrees as the *)
(* input has opening parentheses and as many Nodes as it has semicolons    *)
(* (outside bracketed values), with no call left unfinished.               *)
C9_FailFastNoPartialResult ==
    /\ Failed => result = <<>>
    /\ outcome = "ok" =>
            /\ stack = <<>>
            /\ SumOver(result, CountTrees) = Structural(sgf, 0, "(")
            /\ SumOver(result, CountNodes) = Structural(sgf, 0, ";")

\* an error ended the parse after a whole entry had been parsed
C9_Witness ==
    /\ outcome = "SGFValidationError"
    /\ Len(sgf) > 8
    /\ SubSeq(sgf, 1, 8) = <<"(", ";", "F", "F", "[", "4", "]", ")">>

(* C10: every key of every Node of a returned Collection is a non-empty    *)
(* string of uppercase letters, and a property whose identifier run holds  *)
(* no uppercase letter is never stored: the step that parses it ends the   *)
(* parse with an error.                                                    *)
UpperKey(id) == id # <<>> /\ \A i \in 1..Len(id) : id[i] \in Upper
UpperKeys(node) == \A id \in KeysOf(node) : UpperKey(id)

C10_Returned ==
    outcome = "ok" => \A k \in 1..Len(result) : \A n \in NodesOf(result[k]) : UpperKeys(n)

C10_Step ==
    (pc = "parseNodeProperty" /\ IdentAtCursor.exc = "" /\ IdentAtCursor.id = <<>>)
        => outcome' # "running"

C10_KeysAreUppercase == []C10_Returned /\ [][C10_Step]_vars

\* "(;ab[x])" was parsed in legacy mode
C10_Witness ==
    /\ pc = "done"
    /\ sgf = <<"(", ";", "a", "b", "[", "x", "]", ")">>
    /\ propid_re = "old_propid_re"

====
